---- MODULE Spec2Model ----
(***************************************************************************)
(* RAGCore: the source registry, the feedback learner, the vector store    *)
(* and the A/B experiment manager of src/lib/rag/ragService.ts and         *)
(* src/lib/rag/vectorStore.ts, as one state machine.                       *)
(*                                                                         *)
(* Time is counted in units of TIME_DECAY_HALF_LIFE (30 days), so that an  *)
(* event of age k has the decay weight 2^-k.  Sums of weights, scores and  *)
(* interval bounds are kept as exact rationals; the two comparisons whose  *)
(* outcome depends on IEEE-754 rounding (the rates compared by endABTest)  *)
(* are computed on correctly rounded 53-bit values.                        *)
(***************************************************************************)
EXTENDS Integers, Sequences, FiniteSets, TLC

VARIABLES sources, chunks, activeABTest, now, nextChunk, fbCalls, localStorage,
          writable, inflight

vars == <<sources, chunks, activeABTest, now, nextChunk, fbCalls, localStorage,
          writable, inflight>>

(***************************************************************************)
(* Bounds of the model.                                                    *)
(***************************************************************************)
MaxTime == 2
MaxChunks == 2
MaxDocChunks == 1
MaxSources == 2
MaxFeedback == 1
MaxCount == 12
MaxHistory == 3
MaxRatings == 36
MaxInflight == 2
MaxIngested == 4

(***************************************************************************)
(* Natural numbers of arbitrary size: little-endian sequences of limbs in  *)
(* base 2^15, without leading zero limbs.  They carry the products that    *)
(* exceed 32 bits.                                                         *)
(***************************************************************************)
Base == 32768

RECURSIVE Pow2(_)
Pow2(k) == IF k = 0 THEN 1 ELSE 2 * Pow2(k - 1)

RECURSIVE BNorm(_)
BNorm(a) ==
  IF a = <<>> THEN <<>>
  ELSE IF a[Len(a)] = 0 THEN BNorm(SubSeq(a, 1, Len(a) - 1))
  ELSE a

RECURSIVE BFromInt(_)
BFromInt(n) == IF n = 0 THEN <<>> ELSE <<n % Base>> \o BFromInt(n \div Base)

Limb0(a) == IF a = <<>> THEN 0 ELSE Head(a)
Rest(a) == IF a = <<>> THEN <<>> ELSE Tail(a)

RECURSIVE BAddC(_, _, _)
BAddC(a, b, c) ==
  IF a = <<>> /\ b = <<>>
  THEN (IF c = 0 THEN <<>> ELSE <<c>>)
  ELSE LET x == Limb0(a) + Limb0(b) + c
       IN  <<x % Base>> \o BAddC(Rest(a), Rest(b), x \div Base)

BAdd(a, b) == BAddC(a, b, 0)

\* a - b for a >= b
RECURSIVE BSubC(_, _, _)
BSubC(a, b, c) ==
  IF a = <<>> THEN <<>>
  ELSE LET x == Limb0(a) - Limb0(b) - c
       IN  IF x < 0 THEN <<x + Base>> \o BSubC(Rest(a), Rest(b), 1)
           ELSE <<x>> \o BSubC(Rest(a), Rest(b), 0)

BSub(a, b) == BNorm(BSubC(a, b, 0))

\* a * m + c for 0 <= m <= Base
RECURSIVE BMulSmallC(_, _, _)
BMulSmallC(a, m, c) ==
  IF a = <<>> THEN (IF c = 0 THEN <<>> ELSE BFromInt(c))
  ELSE LET x == Head(a) * m + c
       IN  <<x % Base>> \o BMulSmallC(Tail(a), m, x \div Base)

BMulSmall(a, m) == BNorm(BMulSmallC(a, m, 0))

BShift(a) == IF a = <<>> THEN <<>> ELSE <<0>> \o a

RECURSIVE BMul(_, _)
BMul(a, b) ==
  IF b = <<>> THEN <<>>
  ELSE BAdd(BMulSmall(a, Head(b)), BShift(BMul(a, Tail(b))))

\* -1, 0, 1 as a < b, a = b, a > b
RECURSIVE BCmpSame(_, _)
BCmpSame(a, b) ==
  IF a = <<>> THEN 0
  ELSE LET n == Len(a)
       IN  IF a[n] < b[n] THEN -1
           ELSE IF a[n] > b[n] THEN 1
           ELSE BCmpSame(SubSeq(a, 1, n - 1), SubSeq(b, 1, n - 1))

BCmp(a, b) ==
  IF Len(a) < Len(b) THEN -1
  ELSE IF Len(a) > Len(b) THEN 1
  ELSE BCmpSame(a, b)

BLess(a, b) == BCmp(a, b) = -1

\* quotient and remainder of a by 0 < d <= Base
RECURSIVE BDivRec(_, _)
BDivRec(a, d) ==
  IF a = <<>> THEN [q |-> <<>>, r |-> 0]
  ELSE LET hi == BDivRec(Tail(a), d)
           cur == hi.r * Base + Head(a)
       IN  [q |-> <<cur \div d>> \o hi.q, r |-> cur % d]

BDivSmall(a, d) ==
  LET x == BDivRec(a, d) IN [q |-> BNorm(x.q), r |-> x.r]

RECURSIVE BitLen(_)
BitLen(n) == IF n = 0 THEN 0 ELSE 1 + BitLen(n \div 2)

BBitLen(a) == IF a = <<>> THEN 0 ELSE 15 * (Len(a) - 1) + BitLen(a[Len(a)])

\* 2^n
BPow2(n) == [i \in 1..(n \div 15) |-> 0] \o <<Pow2(n % 15)>>

(***************************************************************************)
(* IEEE-754 doubles in [0, 1], held exactly as multiples of 2^-Grid.       *)
(* Every double in [2^-8, 1] is such a multiple, which covers p/q for      *)
(* counters below 256.                                                     *)
(***************************************************************************)
Grid == 60
Mantissa == 53

\* round-to-nearest-even of a multiple of 2^-Grid to a 53-bit significand
Round53(x) ==
  IF BBitLen(x) <= Mantissa THEN x
  ELSE LET d == Pow2(BBitLen(x) - Mantissa)
           qr == BDivSmall(x, d)
           up == \/ 2 * qr.r > d
                 \/ 2 * qr.r = d /\ Limb0(qr.q) % 2 = 1
       IN  BMulSmall(IF up THEN BAdd(qr.q, <<1>>) ELSE qr.q, d)

\* number of doublings that bring p up to at least q
RECURSIVE Doublings(_, _)
Doublings(p, q) == IF p >= q THEN 0 ELSE 1 + Doublings(2 * p, q)

\* the double p / q for 0 <= p <= q, 0 < q
DivDouble(p, q) ==
  IF p = 0 THEN <<>>
  ELSE LET k == Doublings(p, q)
           qr == BDivSmall(BMul(BFromInt(p), BPow2(Mantissa - 1 + k)), q)
           up == \/ 2 * qr.r > q
                 \/ 2 * qr.r = q /\ Limb0(qr.q) % 2 = 1
       IN  BMulSmall(IF up THEN BAdd(qr.q, <<1>>) ELSE qr.q,
                     Pow2(Grid - (Mantissa - 1) - k))

\* the double Math.abs(x - y)
AbsSubDouble(x, y) ==
  Round53(IF BLess(x, y) THEN BSub(y, x) ELSE BSub(x, y))

(***************************************************************************)
(* Program constants.                                                      *)
(***************************************************************************)
AUTO_ADJUST_THRESHOLD == 5
DefaultPriority == 3
MinQuestions == 10
PValueMinN == 20
\* a source unused for more than 30 days (one half-life) and used fewer than 5 times
StaleAfter == 1
RarelyUsed == 5
\* z = 1.96 = ZNum / ZDen, 95% confidence
\* z of a 99% interval, 2.56
ZNumOf99 == 64

ZNum == 49
ZDen == 25
Priorities == 1..5

Names == {"a", "b"}
\* the titles of parsed pages, "" when the page has none
Titles == Names \cup {""}
Embeddings == {<<>>, <<1, 0>>}
Queries == {<<1, 0>>, <<1, 1>>}

\* one unit of weight is 2^-MaxTime, so that every decayed weight is an integer
Scale == Pow2(MaxTime)

RECURSIVE GCD(_, _)
GCD(a, b) == IF b = 0 THEN a ELSE GCD(b, a % b)

Rat(n, d) == <<n \div GCD(n, d), d \div GCD(n, d)>>

\* a >= b, a > b for rationals <<numerator, denominator>>
RatGE(a, b) == a[1] * b[2] >= b[1] * a[2]
RatGT(a, b) == a[1] * b[2] > b[1] * a[2]

(***************************************************************************)
(* FeedbackLearner                                                         *)
(***************************************************************************)
\* the interval [0.3, 0.7] of a source without feedback
DefaultCI == [kind |-> "default", wp |-> 0, wt |-> 0]

\* the Wilson interval of weightedPositive = wp / Scale, weightedTotal = wt / Scale
WilsonCI(wp, wt) == [kind |-> "wilson", wp |-> wp, wt |-> wt]

\* With a = ZNum^2, b = ZDen^2, S = Scale, P = wp, N = wt:
\*   center = CenterNum / CenterDen,  margin = sqrt(MarginSq / N) / CenterDen
CenterNum(ci) == 2 * ZDen * ZDen * ci.wp + ZNum * ZNum * Scale
CenterDen(ci) == 2 * (ZDen * ZDen * ci.wt + ZNum * ZNum * Scale)
MarginSq(ci) ==
  BMul(BFromInt(ZNum * ZNum * Scale),
       BAdd(BMul(BFromInt(4 * ZDen * ZDen), BFromInt(ci.wp * (ci.wt - ci.wp))),
            BFromInt(ZNum * ZNum * ci.wt * Scale)))

\* sqrt(MarginSq / N) > xn / xd, for xd > 0
RootGT(ci, xn, xd) ==
  \/ xn < 0
  \/ BLess(BMul(BFromInt(ci.wt), BMul(BFromInt(xn), BFromInt(xn))),
           BMul(MarginSq(ci), BMul(BFromInt(xd), BFromInt(xd))))

\* Math.max(0, center - margin) and Math.min(1, center + margin) take the bound
LowerClamped(ci) == RootGT(ci, CenterNum(ci), 1)
UpperClamped(ci) == RootGT(ci, CenterDen(ci) - CenterNum(ci), 1)

\* upper - lower > tn / td
WidthGT(ci, tn, td) ==
  IF ci.kind = "default" THEN 10 * tn < 4 * td
  ELSE IF LowerClamped(ci) /\ UpperClamped(ci) THEN tn < td
  ELSE IF LowerClamped(ci)
    THEN RootGT(ci, tn * CenterDen(ci) - td * CenterNum(ci), td)
  ELSE IF UpperClamped(ci)
    THEN RootGT(ci, tn * CenterDen(ci) - td * (CenterDen(ci) - CenterNum(ci)), td)
  ELSE RootGT(ci, tn * CenterDen(ci), 2 * td)

\* sqrt(MarginSq / N) >= xn / xd, for xd > 0
RootGE(ci, xn, xd) ==
  \/ xn <= 0
  \/ ~BLess(BMul(MarginSq(ci), BMul(BFromInt(xd), BFromInt(xd))),
            BMul(BFromInt(ci.wt), BMul(BFromInt(xn), BFromInt(xn))))

\* upper - lower >= tn / td
WidthGE(ci, tn, td) ==
  IF ci.kind = "default" THEN 10 * tn <= 4 * td
  ELSE IF LowerClamped(ci) /\ UpperClamped(ci) THEN tn <= td
  ELSE IF LowerClamped(ci)
    THEN RootGE(ci, tn * CenterDen(ci) - td * CenterNum(ci), td)
  ELSE IF UpperClamped(ci)
    THEN RootGE(ci, tn * CenterDen(ci) - td * (CenterDen(ci) - CenterNum(ci)), td)
  ELSE RootGE(ci, tn * CenterDen(ci), 2 * td)

\* the decay weight 2^-age of an event, in units of 2^-MaxTime
DecayWeight(event, currentTime) == Scale \div Pow2(currentTime - event.timestamp)

RECURSIVE SumWeights(_, _, _)
SumWeights(history, currentTime, positiveOnly) ==
  IF history = <<>> THEN 0
  ELSE (IF positiveOnly /\ ~Head(history).isPositive THEN 0
        ELSE DecayWeight(Head(history), currentTime))
       + SumWeights(Tail(history), currentTime, positiveOnly)

updateLearningScoreWithDecay(source, currentTime) ==
  LET history == source.usageStats.feedbackHistory
      weightedPositive == SumWeights(history, currentTime, TRUE)
      weightedTotal == SumWeights(history, currentTime, FALSE)
      reweighted == [i \in 1..Len(history) |->
                       [history[i] EXCEPT !.weight =
                          Rat(DecayWeight(history[i], currentTime), Scale)]]
  IN  IF history = <<>>
      THEN [source EXCEPT !.usageStats.learningScore = <<1, 2>>,
                          !.usageStats.confidenceInterval = DefaultCI]
      ELSE [source EXCEPT
              !.usageStats.feedbackHistory = reweighted,
              !.usageStats.learningScore =
                 Rat(weightedPositive + Scale, weightedTotal + 2 * Scale),
              !.usageStats.confidenceInterval =
                 IF weightedTotal > 0 THEN WilsonCI(weightedPositive, weightedTotal)
                 ELSE DefaultCI]

\* the mapping with 0.85 as the bar of the highest priority
ScorePriorityHighBar(score) ==
  IF RatGE(score, <<17, 20>>) THEN 5
  ELSE IF RatGE(score, <<13, 20>>) THEN 4
  ELSE IF RatGE(score, <<7, 20>>) THEN 3
  ELSE IF RatGE(score, <<1, 5>>) THEN 2
  ELSE 1

ScorePriority(score) ==
  IF RatGE(score, <<4, 5>>) THEN 5
  ELSE IF RatGE(score, <<13, 20>>) THEN 4
  ELSE IF RatGE(score, <<7, 20>>) THEN 3
  ELSE IF RatGE(score, <<1, 5>>) THEN 2
  ELSE 1

\* autoAdjustPriority without the test of the interval's width
autoAdjustPriorityUngated(source) ==
  [source EXCEPT !.priority = ScorePriority(source.usageStats.learningScore)]

autoAdjustPriority(source) ==
  IF WidthGT(source.usageStats.confidenceInterval, 3, 10) THEN source
  ELSE [source EXCEPT !.priority = ScorePriority(source.usageStats.learningScore)]

(***************************************************************************)
(* VectorStore.  chunks is the Map of the store in insertion order; a      *)
(* chunk is [id, source, embedding], embedding <<>> when it has none.      *)
(* A similarity dot / sqrt(normA * normB) is held as [d, m]: the value     *)
(* d / sqrt(m), scaled by a positive factor common to one search.          *)
(***************************************************************************)
RECURSIVE Dot(_, _)
Dot(a, b) == IF a = <<>> THEN 0 ELSE Head(a) * Head(b) + Dot(Tail(a), Tail(b))

cosineSimilarity(a, b) ==
  IF Dot(a, a) * Dot(b, b) = 0 THEN [d |-> 0, m |-> 1]
  ELSE [d |-> Dot(a, b), m |-> Dot(a, a) * Dot(b, b)]

\* x < y for similarities
SimLess(x, y) ==
  IF x.d < 0 /\ y.d >= 0 THEN TRUE
  ELSE IF x.d >= 0 /\ y.d < 0 THEN FALSE
  ELSE IF x.d >= 0 THEN x.d * x.d * y.m < y.d * y.d * x.m
  ELSE x.d * x.d * y.m > y.d * y.d * x.m

\* Array.prototype.sort with the comparator b.key - a.key: stable, descending
RECURSIVE InsertDesc(_, _)
InsertDesc(sorted, r) ==
  IF sorted = <<>> THEN <<r>>
  ELSE IF SimLess(sorted[Len(sorted)].key, r.key)
    THEN InsertDesc(SubSeq(sorted, 1, Len(sorted) - 1), r) \o <<sorted[Len(sorted)]>>
  ELSE sorted \o <<r>>

RECURSIVE SortDesc(_)
SortDesc(rs) ==
  IF rs = <<>> THEN <<>>
  ELSE InsertDesc(SortDesc(SubSeq(rs, 1, Len(rs) - 1)), rs[Len(rs)])

Embedded(cs) == SelectSeq(cs, LAMBDA c : c.embedding # <<>>)

\* the test of the lengths passing a query shorter than the embedding
DimensionMismatchLonger(cs, queryEmbedding) ==
  \E i \in 1..Len(cs) :
     cs[i].embedding # <<>> /\ Len(cs[i].embedding) < Len(queryEmbedding)

\* cosineSimilarity throws for some chunk the loop visits
DimensionMismatch(cs, queryEmbedding) ==
  \E i \in 1..Len(cs) :
     cs[i].embedding # <<>> /\ Len(cs[i].embedding) # Len(queryEmbedding)

Take(rs, k) == SubSeq(rs, 1, IF k < Len(rs) THEN k ELSE Len(rs))

\* [ok, results]: ok is FALSE when the call throws
search(cs, queryEmbedding, topK) ==
  IF DimensionMismatch(cs, queryEmbedding) THEN [ok |-> FALSE, results |-> <<>>]
  ELSE LET e == Embedded(cs)
           scored == [i \in 1..Len(e) |->
                        LET sc == cosineSimilarity(queryEmbedding, e[i].embedding)
                        IN  [chunk |-> e[i], score |-> sc, key |-> sc]]
       IN  [ok |-> TRUE, results |-> Take(SortDesc(scored), topK)]

\* sourcePriorities.get(chunk.metadata.source) || 3
ResolvePriority(sourcePriorities, name) ==
  IF name \in DOMAIN sourcePriorities /\ sourcePriorities[name] # 0
  THEN sourcePriorities[name] ELSE DefaultPriority

\* chunk.metadata.priority, 0 when the chunk has none
ChunkLevelPriority(chunk) ==
  IF "priority" \in DOMAIN chunk THEN chunk.priority ELSE 0

\* the priority of the source's map entry, whatever the chunk carries
ChunkPriorityFromMap(chunk, sourcePriorities) ==
  ResolvePriority(sourcePriorities, chunk.source)

\* chunk.metadata.priority || sourcePriorities.get(chunk.metadata.source) || 3
ChunkPriority(chunk, sourcePriorities) ==
  IF ChunkLevelPriority(chunk) # 0 THEN ChunkLevelPriority(chunk)
  ELSE ResolvePriority(sourcePriorities, chunk.source)

\* a weight that falls as the priority rises
WeightedDown(baseScore, priority) ==
  [d |-> baseScore.d * (17 - 2 * priority), m |-> baseScore.m]

\* baseScore * (0.5 + priority * 0.2), in tenths
Weighted(baseScore, priority) ==
  [d |-> baseScore.d * (5 + 2 * priority), m |-> baseScore.m]

searchWeighted(cs, queryEmbedding, topK, sourcePriorities) ==
  IF DimensionMismatch(cs, queryEmbedding) THEN [ok |-> FALSE, results |-> <<>>]
  ELSE LET e == Embedded(cs)
           scored == [i \in 1..Len(e) |->
                        LET sc == cosineSimilarity(queryEmbedding, e[i].embedding)
                            w == Weighted(sc, ChunkPriority(e[i], sourcePriorities))
                        IN  [chunk |-> e[i], score |-> sc, weightedScore |-> w,
                             key |-> w]]
       IN  [ok |-> TRUE, results |-> Take(SortDesc(scored), topK)]

\* removes only the first chunk of the source
removeFirstBySource(cs, name) ==
  IF \E i \in 1..Len(cs) : cs[i].source = name
  THEN LET first == CHOOSE i \in 1..Len(cs) :
                      /\ cs[i].source = name
                      /\ \A j \in 1..(i - 1) : cs[j].source # name
       IN  SubSeq(cs, 1, first - 1) \o SubSeq(cs, first + 1, Len(cs))
  ELSE cs

removeBySource(cs, name) == SelectSeq(cs, LAMBDA c : c.source # name)

(***************************************************************************)
(* SourceRegistry.  sources is the Map of the service in insertion order;  *)
(* an id `${type}_${Date.now()}_${name}` is <<type, time, name>>.          *)
(* A number that JavaScript leaves undefined (lastUsed, endedAt) is 0:     *)
(* the code tests both by truthiness and Date.now() is never 0.            *)
(***************************************************************************)
GhostId == <<"file", 0, "ghost">>

Ids(srcs) == {srcs[i].id : i \in 1..Len(srcs)}
IndexOf(srcs, id) == CHOOSE i \in 1..Len(srcs) : srcs[i].id = id
Get(srcs, id) == srcs[IndexOf(srcs, id)]

\* Map.prototype.set: an existing key keeps its position
MapSet(srcs, source) ==
  IF source.id \in Ids(srcs)
  THEN [srcs EXCEPT ![IndexOf(srcs, source.id)] = source]
  ELSE Append(srcs, source)

MapDelete(srcs, id) == SelectSeq(srcs, LAMBDA x : x.id # id)

FreshStats ==
  [timesUsed |-> 0, positiveRatings |-> 0, negativeRatings |-> 0, lastUsed |-> 0,
   learningScore |-> <<1, 2>>, confidenceInterval |-> DefaultCI,
   feedbackHistory |-> <<>>]

NewSource(id, name, n, t) ==
  [id |-> id, name |-> name, chunks |-> n, priority |-> DefaultPriority,
   addedAt |-> t, usageStats |-> FreshStats]

\* localStorage holds, per key, <<>> when the key is absent and <<value>> when a
\* JSON text is stored; the value is what JSON.parse returns for that text.
\* JSON.stringify(Array.from(this.sources.values())): the array of the sources
\* in the order of the Map.  Every number of a source is finite and a lastUsed
\* that is undefined is left out, so that parsing returns the sources' fields.
StringifySources(srcs) == [i \in 1..Len(srcs) |-> srcs[i]]

\* setItem throws when the store does not accept the write; the catch logs it
saveSourcesToStorage(ls, srcs) ==
  IF writable THEN [ls EXCEPT !.rag_sources = <<StringifySources(srcs)>>] ELSE ls

\* sources.forEach(source => this.sources.set(source.id, source)) on the new Map
RECURSIVE SetAll(_, _)
SetAll(srcs, array) ==
  IF array = <<>> THEN srcs ELSE SetAll(MapSet(srcs, Head(array)), Tail(array))

loadSourcesFromStorage(ls) ==
  IF ls.rag_sources = <<>> THEN <<>> ELSE SetAll(<<>>, ls.rag_sources[1])

\* chunkDocument: one chunk per embedding, with fresh ids
NewChunks(name, embs, first) ==
  [i \in 1..Len(embs) |-> [id |-> first + i, source |-> name, embedding |-> embs[i]]]

\* the embeddings of the chunks of a document of up to MaxDocChunks chunks
DocEmbeddings == UNION {[1..n -> Embeddings] : n \in 0..MaxDocChunks}

\* processPDF, processTextFile, processOfficeDocument, processImage from addMany on
processFile(name, embs) ==
  /\ nextChunk + Len(embs) <= MaxChunks
  /\ <<"file", now, name>> \in Ids(sources) \/ Len(sources) < MaxSources
  /\ chunks' = chunks \o NewChunks(name, embs, nextChunk)
  /\ nextChunk' = nextChunk + Len(embs)
  /\ sources' = MapSet(sources, NewSource(<<"file", now, name>>, name, Len(embs), now))
  /\ localStorage' = saveSourcesToStorage(localStorage, sources')
  /\ UNCHANGED <<activeABTest, now, fbCalls, inflight, writable>>

\* processURL from addMany on: the chunks carry the url, the source the title
processURL(url, title, embs) ==
  /\ nextChunk + Len(embs) <= MaxChunks
  /\ <<"url", now, url>> \in Ids(sources) \/ Len(sources) < MaxSources
  /\ chunks' = chunks \o NewChunks(url, embs, nextChunk)
  /\ nextChunk' = nextChunk + Len(embs)
  /\ sources' = MapSet(sources, NewSource(<<"url", now, url>>,
                                          IF title = "" THEN url ELSE title,
                                          Len(embs), now))
  /\ localStorage' = saveSourcesToStorage(localStorage, sources')
  /\ UNCHANGED <<activeABTest, now, fbCalls, inflight, writable>>

\* sorted newest first; the sort is stable
RECURSIVE InsertNewest(_, _)
InsertNewest(sorted, x) ==
  IF sorted = <<>> THEN <<x>>
  ELSE IF sorted[Len(sorted)].addedAt < x.addedAt
    THEN InsertNewest(SubSeq(sorted, 1, Len(sorted) - 1), x) \o <<sorted[Len(sorted)]>>
  ELSE sorted \o <<x>>

RECURSIVE getSources(_)
getSources(srcs) ==
  IF srcs = <<>> THEN <<>>
  ELSE InsertNewest(getSources(SubSeq(srcs, 1, Len(srcs) - 1)), srcs[Len(srcs)])

\* the source, or <<>> for undefined
getSource(srcs, id) == IF id \in Ids(srcs) THEN <<Get(srcs, id)>> ELSE <<>>

updateSourcePriority(sourceId, priority) ==
  /\ sources' = IF sourceId \in Ids(sources)
                THEN MapSet(sources, [Get(sources, sourceId) EXCEPT !.priority = priority])
                ELSE sources
  /\ localStorage' = IF sourceId \in Ids(sources)
                     THEN saveSourcesToStorage(localStorage, sources')
                     ELSE localStorage
  /\ UNCHANGED <<chunks, activeABTest, now, nextChunk, inflight, fbCalls, writable>>

removeSource(sourceId) ==
  /\ IF sourceId \in Ids(sources)
     THEN /\ chunks' = removeBySource(chunks, Get(sources, sourceId).name)
          /\ sources' = MapDelete(sources, sourceId)
          /\ localStorage' = saveSourcesToStorage(localStorage, sources')
     ELSE UNCHANGED <<chunks, sources, localStorage>>
  /\ UNCHANGED <<activeABTest, now, nextChunk, inflight, fbCalls, writable>>

clear ==
  /\ chunks' = <<>>
  /\ sources' = <<>>
  /\ localStorage' = saveSourcesToStorage(localStorage, sources')
  /\ UNCHANGED <<activeABTest, now, nextChunk, inflight, fbCalls, writable>>

\* the priority map that query() hands to searchWeighted: later sources overwrite
PriorityMap(srcs) ==
  [n \in {srcs[i].name : i \in 1..Len(srcs)} |->
     LET last == CHOOSE i \in 1..Len(srcs) :
                   /\ srcs[i].name = n
                   /\ \A j \in (i + 1)..Len(srcs) : srcs[j].name # n
     IN  srcs[last].priority]

RECURSIVE UsageFold(_, _, _)
UsageFold(srcs, sourceIds, t) ==
  IF sourceIds = <<>> THEN srcs
  ELSE LET id == Head(sourceIds)
           next == IF id \in Ids(srcs)
                   THEN MapSet(srcs, [Get(srcs, id) EXCEPT
                                        !.usageStats.timesUsed = @ + 1,
                                        !.usageStats.lastUsed = t])
                   ELSE srcs
       IN  UsageFold(next, Tail(sourceIds), t)

recordSourceUsage(sourceIds) ==
  /\ sources' = UsageFold(sources, sourceIds, now)
  /\ localStorage' = saveSourcesToStorage(localStorage, sources')
  /\ UNCHANGED <<chunks, activeABTest, now, nextChunk, inflight, fbCalls, writable>>

(***************************************************************************)
(* processFeedback                                                         *)
(***************************************************************************)
\* the body of the forEach without the recalculation of the score
FeedbackOneStale(source, isPositive, t) ==
  LET event == [timestamp |-> t, isPositive |-> isPositive, weight |-> <<1, 1>>]
      pushed == [source EXCEPT
                   !.usageStats.feedbackHistory = Append(@, event),
                   !.usageStats.positiveRatings = IF isPositive THEN @ + 1 ELSE @,
                   !.usageStats.negativeRatings = IF isPositive THEN @ ELSE @ + 1]
      totalRatings == pushed.usageStats.positiveRatings
                      + pushed.usageStats.negativeRatings
  IN  IF totalRatings >= AUTO_ADJUST_THRESHOLD THEN autoAdjustPriority(pushed)
      ELSE pushed

\* the body of the forEach with the adjustment attempted at the threshold only
FeedbackOneAtCrossing(source, isPositive, t) ==
  LET event == [timestamp |-> t, isPositive |-> isPositive, weight |-> <<1, 1>>]
      pushed == [source EXCEPT
                   !.usageStats.feedbackHistory = Append(@, event),
                   !.usageStats.positiveRatings = IF isPositive THEN @ + 1 ELSE @,
                   !.usageStats.negativeRatings = IF isPositive THEN @ ELSE @ + 1]
      scored == updateLearningScoreWithDecay(pushed, t)
      totalRatings == scored.usageStats.positiveRatings
                      + scored.usageStats.negativeRatings
  IN  IF totalRatings = AUTO_ADJUST_THRESHOLD THEN autoAdjustPriority(scored)
      ELSE scored

\* the body of the forEach with a history that keeps the two newest events
FeedbackOneCapped(source, isPositive, t) ==
  LET event == [timestamp |-> t, isPositive |-> isPositive, weight |-> <<1, 1>>]
      pushed == [source EXCEPT
                   !.usageStats.feedbackHistory =
                      IF Len(@) >= 2 THEN Append(Tail(@), event) ELSE Append(@, event),
                   !.usageStats.positiveRatings = IF isPositive THEN @ + 1 ELSE @,
                   !.usageStats.negativeRatings = IF isPositive THEN @ ELSE @ + 1]
      scored == updateLearningScoreWithDecay(pushed, t)
      totalRatings == scored.usageStats.positiveRatings
                      + scored.usageStats.negativeRatings
  IN  IF totalRatings >= AUTO_ADJUST_THRESHOLD THEN autoAdjustPriority(scored)
      ELSE scored

\* the body of the forEach for a registered source
FeedbackOne(source, isPositive, t) ==
  LET event == [timestamp |-> t, isPositive |-> isPositive, weight |-> <<1, 1>>]
      pushed == [source EXCEPT
                   !.usageStats.feedbackHistory = Append(@, event),
                   !.usageStats.positiveRatings = IF isPositive THEN @ + 1 ELSE @,
                   !.usageStats.negativeRatings = IF isPositive THEN @ ELSE @ + 1]
      scored == updateLearningScoreWithDecay(pushed, t)
      totalRatings == scored.usageStats.positiveRatings
                      + scored.usageStats.negativeRatings
  IN  IF totalRatings >= AUTO_ADJUST_THRESHOLD THEN autoAdjustPriority(scored)
      ELSE scored

RECURSIVE FeedbackFold(_, _, _, _)
FeedbackFold(srcs, sourceIds, isPositive, t) ==
  IF sourceIds = <<>> THEN srcs
  ELSE LET id == Head(sourceIds)
           next == IF id \in Ids(srcs)
                   THEN MapSet(srcs, FeedbackOne(Get(srcs, id), isPositive, t))
                   ELSE srcs
       IN  FeedbackFold(next, Tail(sourceIds), isPositive, t)

\* 1 - mean(upper - lower) over all sources, kept as the intervals it averages;
\* 0 / 0 without sources
AvgConfidence(srcs) ==
  IF srcs = <<>> THEN [kind |-> "NaN", of |-> <<>>]
  ELSE [kind |-> "mean",
        of |-> [i \in 1..Len(srcs) |-> srcs[i].usageStats.confidenceInterval]]

ZeroStats ==
  [questionsAnswered |-> 0, positiveRatings |-> 0, negativeRatings |-> 0,
   avgConfidence |-> [kind |-> "zero", of |-> <<>>]]

BumpStats(stats, isPositive, srcs) ==
  [questionsAnswered |-> stats.questionsAnswered + 1,
   positiveRatings |-> stats.positiveRatings + (IF isPositive THEN 1 ELSE 0),
   negativeRatings |-> stats.negativeRatings + (IF isPositive THEN 0 ELSE 1),
   avgConfidence |-> AvgConfidence(srcs)]

\* activeABTest is null
NoTest == [id |-> 0]

\* JSON.stringify of a number: NaN becomes null
StringifyNumber(x) == IF x.kind = "NaN" THEN [x EXCEPT !.kind = "null"] ELSE x

\* Object.fromEntries of a Map, and new Map(Object.entries(...)) of the object
ObjectFromEntries(map) == {<<k, map[k]>> : k \in DOMAIN map}
MapOfEntries(object) ==
  [k \in {e[1] : e \in object} |-> (CHOOSE e \in object : e[1] = k)[2]]

StringifyStats(stats) == [stats EXCEPT !.avgConfidence = StringifyNumber(@)]

\* the serializable copy of saveABTest, as JSON.parse returns it
StringifyTest(test) ==
  [test EXCEPT !.configA.sourcePriorities = ObjectFromEntries(@),
               !.configB.sourcePriorities = ObjectFromEntries(@),
               !.results.configAStats = StringifyStats(@),
               !.results.configBStats = StringifyStats(@),
               !.results.pValue = StringifyNumber(@)]

\* removeItem when there is no experiment
saveABTest(ls, test) ==
  IF test = NoTest THEN [ls EXCEPT !.rag_ab_test = <<>>]
  ELSE IF writable THEN [ls EXCEPT !.rag_ab_test = <<StringifyTest(test)>>]
  ELSE ls

loadABTest(ls) ==
  IF ls.rag_ab_test = <<>> THEN NoTest
  ELSE [ls.rag_ab_test[1] EXCEPT !.configA.sourcePriorities = MapOfEntries(@),
                                 !.configB.sourcePriorities = MapOfEntries(@)]

Running == activeABTest # NoTest /\ activeABTest.endedAt = 0
Ended == activeABTest # NoTest /\ activeABTest.endedAt # 0

ActiveStats(test) ==
  IF test.activeConfig = "A" THEN test.results.configAStats
  ELSE test.results.configBStats

\* the counters bumped without the test for endedAt
FeedbackTestAfterEnd(test, isPositive, srcs) ==
  IF test # NoTest
  THEN IF test.activeConfig = "A"
       THEN [test EXCEPT !.results.configAStats = BumpStats(@, isPositive, srcs)]
       ELSE [test EXCEPT !.results.configBStats = BumpStats(@, isPositive, srcs)]
  ELSE test

FeedbackTest(test, isPositive, srcs) ==
  IF test # NoTest /\ test.endedAt = 0
  THEN IF test.activeConfig = "A"
       THEN [test EXCEPT !.results.configAStats = BumpStats(@, isPositive, srcs)]
       ELSE [test EXCEPT !.results.configBStats = BumpStats(@, isPositive, srcs)]
  ELSE test

processFeedback(sourceIds, isPositive) ==
  /\ fbCalls < MaxFeedback
  /\ fbCalls' = fbCalls + 1
  /\ IF sourceIds = <<>>
     THEN UNCHANGED <<sources, activeABTest, localStorage>>
     ELSE /\ sources' = FeedbackFold(sources, sourceIds, isPositive, now)
          /\ activeABTest' = FeedbackTest(activeABTest, isPositive, sources')
          /\ localStorage' =
                saveSourcesToStorage(IF Running
                                     THEN saveABTest(localStorage, activeABTest')
                                     ELSE localStorage, sources')
  /\ UNCHANGED <<chunks, now, nextChunk, inflight, writable>>

(***************************************************************************)
(* ExperimentManager                                                       *)
(***************************************************************************)
\* the configurations a caller may pass as configB: priorities for a set of ids
ConfigPriorities == {5}
ConfigBs(srcs) ==
  UNION {[D -> ConfigPriorities] :
           D \in {Ids(srcs) \cup {GhostId}} \cup {{i} : i \in Ids(srcs)}}

\* a control that holds the default priority instead of the current one
SnapshotOfDefaults(srcs) == [id \in Ids(srcs) |-> DefaultPriority]

Snapshot(srcs) == [id \in Ids(srcs) |-> Get(srcs, id).priority]

applyABTestConfig(test, srcs, config) ==
  IF test = NoTest THEN srcs
  ELSE LET configData == IF config = "A" THEN test.configA ELSE test.configB
       IN  [i \in 1..Len(srcs) |->
              IF srcs[i].id \in DOMAIN configData.sourcePriorities
              THEN [srcs[i] EXCEPT
                      !.priority = configData.sourcePriorities[srcs[i].id]]
              ELSE srcs[i]]

startABTest(configB, random) ==
  LET test == [id |-> now, startedAt |-> now, endedAt |-> 0,
               configA |-> [sourcePriorities |-> Snapshot(sources)],
               configB |-> [sourcePriorities |-> configB],
               activeConfig |-> random,
               results |-> [configAStats |-> ZeroStats, configBStats |-> ZeroStats,
                            winner |-> "none", pValue |-> [kind |-> "unset"]]]
  IN  /\ activeABTest' = test
      /\ sources' = applyABTestConfig(test, sources, test.activeConfig)
      /\ localStorage' = saveABTest(saveSourcesToStorage(localStorage, sources'),
                                    activeABTest')
      /\ UNCHANGED <<chunks, now, nextChunk, inflight, fbCalls, writable>>

\* switchABTestConfig without the test of endedAt
switchABTestConfigAfterEnd ==
  /\ IF activeABTest = NoTest
     THEN UNCHANGED <<activeABTest, sources, localStorage>>
     ELSE /\ activeABTest' = [activeABTest EXCEPT
                                !.activeConfig = IF @ = "A" THEN "B" ELSE "A"]
          /\ sources' = applyABTestConfig(activeABTest', sources,
                                          activeABTest'.activeConfig)
          /\ localStorage' = saveABTest(saveSourcesToStorage(localStorage, sources'),
                                        activeABTest')
  /\ UNCHANGED <<chunks, now, nextChunk, inflight, fbCalls, writable>>

switchABTestConfig ==
  /\ IF activeABTest = NoTest \/ activeABTest.endedAt # 0
     THEN UNCHANGED <<activeABTest, sources, localStorage>>
     ELSE /\ activeABTest' = [activeABTest EXCEPT
                                !.activeConfig = IF @ = "A" THEN "B" ELSE "A"]
          /\ sources' = applyABTestConfig(activeABTest', sources,
                                          activeABTest'.activeConfig)
          /\ localStorage' = saveABTest(saveSourcesToStorage(localStorage, sources'),
                                        activeABTest')
  /\ UNCHANGED <<chunks, now, nextChunk, inflight, fbCalls, writable>>

\* positiveRatings / questionsAnswered as a double, 0 without questions
Rate(stats) ==
  IF stats.questionsAnswered > 0
  THEN DivDouble(stats.positiveRatings, stats.questionsAnswered)
  ELSE <<>>

\* the literal 0.05
Literal005 == DivDouble(1, 20)

Winner(statsA, statsB) ==
  IF \/ BLess(AbsSubDouble(Rate(statsA), Rate(statsB)), Literal005)
     \/ statsA.questionsAnswered < MinQuestions
     \/ statsB.questionsAnswered < MinQuestions
  THEN "inconclusive"
  ELSE IF BLess(Rate(statsB), Rate(statsA)) THEN "A" ELSE "B"

\* 2 * (1 - normalCDF(z)), kept as z^2; "NaN" when se or z is not a number,
\* "one" when se is infinite and z is 0
PValue(statsA, statsB) ==
  LET qA == statsA.questionsAnswered
      qB == statsB.questionsAnswered
      n == qA + qB
      pos == statsA.positiveRatings + statsB.positiveRatings
      cross == statsA.positiveRatings * qB - statsB.positiveRatings * qA
  IN  IF ~(n > PValueMinN) THEN [kind |-> "unset"]
      ELSE IF pos = 0 \/ pos = n THEN [kind |-> "NaN"]
      ELSE IF qA = 0 \/ qB = 0 THEN [kind |-> "one"]
      ELSE [kind |-> "value", zSquared |-> Rat(cross * cross * n, qA * qB * pos * (n - pos))]

\* the guard without the test of endedAt
NothingToEndUnlessNull == activeABTest = NoTest

\* the guard of endABTest's early return
NothingToEnd == activeABTest = NoTest \/ activeABTest.endedAt # 0

\* what endABTest returns when called in the current state
endABTestReturns == IF NothingToEnd THEN "null" ELSE "test"

endABTest ==
  /\ IF NothingToEnd
     THEN UNCHANGED <<activeABTest, localStorage>>
     ELSE /\ activeABTest' =
               [activeABTest EXCEPT
                  !.endedAt = now,
                  !.results.winner = Winner(activeABTest.results.configAStats,
                                            activeABTest.results.configBStats),
                  !.results.pValue =
                     LET p == PValue(activeABTest.results.configAStats,
                                     activeABTest.results.configBStats)
                     IN  IF p.kind = "unset" THEN @ ELSE p]
          /\ localStorage' = saveABTest(localStorage, activeABTest')
  /\ UNCHANGED <<sources, chunks, now, nextChunk, inflight, fbCalls, writable>>

\* the guards without the test for 'inconclusive'
NothingToApplyUnlessInconclusive ==
  \/ activeABTest = NoTest
  \/ activeABTest.endedAt = 0
  \/ activeABTest.results.winner = "none"

\* the guards of applyWinningConfig's early returns
NothingToApply ==
  \/ activeABTest = NoTest
  \/ activeABTest.endedAt = 0
  \/ activeABTest.results.winner = "none"
  \/ activeABTest.results.winner = "inconclusive"

\* what applyWinningConfig returns when called in the current state
applyWinningConfigReturns == ~NothingToApply

applyWinningConfig ==
  /\ IF NothingToApply
     THEN UNCHANGED <<activeABTest, sources, localStorage>>
     ELSE /\ sources' = applyABTestConfig(activeABTest, sources,
                                          activeABTest.results.winner)
          /\ activeABTest' = NoTest
          /\ localStorage' = saveABTest(saveSourcesToStorage(localStorage, sources'),
                                        activeABTest')
  /\ UNCHANGED <<chunks, now, nextChunk, inflight, fbCalls, writable>>

clearABTest ==
  /\ activeABTest' = NoTest
  /\ localStorage' = saveABTest(localStorage, activeABTest')
  /\ UNCHANGED <<sources, chunks, now, nextChunk, inflight, fbCalls, writable>>

\* Date.now() advances by one half-life
Tick ==
  /\ now < MaxTime
  /\ now' = now + 1
  /\ UNCHANGED <<sources, chunks, activeABTest, nextChunk, inflight, fbCalls, localStorage,
                 writable>>

(***************************************************************************)
(* Construction.  The constructor loads the registry and the experiment    *)
(* that an earlier session saved; the vector store starts empty.  The      *)
(* saved states are built with the operations above, so each of them is a  *)
(* state an earlier session reaches.                                       *)
(***************************************************************************)
RECURSIVE Rated(_, _, _, _)
Rated(source, k, isPositive, t) ==
  IF k = 0 THEN source
  ELSE FeedbackOne(Rated(source, k - 1, isPositive, t), isPositive, t)

SavedA == NewSource(<<"file", 1, "a">>, "a", 1, 1)
SavedB == NewSource(<<"file", 1, "b">>, "b", 1, 1)

\* a registry saved after k positive ratings of the first source
SavedRegistry(k) == <<Rated(SavedA, k, TRUE, 1), SavedB>>

\* questionsAnswered and positiveRatings of config A and of config B
SavedCounters ==
  {<<9, 8, 10, 2>>, <<10, 2, 10, 9>>, <<10, 2, 12, 3>>, <<12, 12, 12, 12>>}

SavedStats(q, p, srcs) ==
  [questionsAnswered |-> q, positiveRatings |-> p, negativeRatings |-> q - p,
   avgConfidence |-> IF q = 0 THEN ZeroStats.avgConfidence ELSE AvgConfidence(srcs)]

\* a running experiment saved after the feedback calls counted by c
SavedTest(srcs, configB, active, c) ==
  [id |-> 1, startedAt |-> 1, endedAt |-> 0,
   configA |-> [sourcePriorities |-> Snapshot(srcs)],
   configB |-> [sourcePriorities |-> configB],
   activeConfig |-> active,
   results |-> [configAStats |-> SavedStats(c[1], c[2], srcs),
                configBStats |-> SavedStats(c[3], c[4], srcs),
                winner |-> "none", pValue |-> [kind |-> "unset"]]]

SavedConfigB == (SavedA.id :> 5) @@ (SavedB.id :> 1)

SavedTests(srcs) ==
  {SavedTest(srcs, SavedConfigB, active, c) :
     active \in {"A", "B"}, c \in SavedCounters}

Base0 ==
  /\ chunks = <<>>
  /\ now = 1
  /\ nextChunk = 0
  /\ fbCalls = 0
  /\ inflight = {}

\* the store that the constructor loaded the registry and the experiment from;
\* it accepts writes
Loaded ==
  /\ localStorage =
        [rag_sources |-> IF sources = <<>> THEN <<>> ELSE <<StringifySources(sources)>>,
         rag_ab_test |-> IF activeABTest = NoTest THEN <<>>
                         ELSE <<StringifyTest(activeABTest)>>]
  /\ writable = TRUE

\* a reload of a registry of two sources, with or without an experiment
Init ==
  /\ Base0
  /\ \/ /\ sources = SavedRegistry(0)
        /\ activeABTest = NoTest
     \/ \E test \in SavedTests(SavedRegistry(0)) :
          /\ activeABTest = test
          /\ sources = applyABTestConfig(test, SavedRegistry(0), test.activeConfig)
  /\ Loaded

SourceIdLists ==
  LET ids == Ids(sources) \cup {GhostId}
  IN  {<<>>} \cup {<<i>> : i \in ids}
      \cup {p \in Ids(sources) \X Ids(sources) : p[1] # p[2]}

UserPriorities == {2}

\* registry and experiment operations at one instant; the user sets the
\* priority of the first saved source or of an id that is not registered
Next ==
  \/ \E id \in {SavedA.id, GhostId}, priority \in UserPriorities :
        updateSourcePriority(id, priority)
  \/ \E id \in Ids(sources) \cup {GhostId} : removeSource(id)
  \/ \E ids \in SourceIdLists, isPositive \in BOOLEAN : processFeedback(ids, isPositive)
  \/ \E configB \in ConfigBs(sources), random \in {"A", "B"} :
        startABTest(configB, random)
  \/ switchABTestConfig
  \/ endABTest
  \/ applyWinningConfig
  \/ clearABTest

Spec == Init /\ [][Next]_vars

\* the experiment operations and feedback as time passes
NextTimed ==
  \/ \E ids \in SourceIdLists, isPositive \in BOOLEAN : processFeedback(ids, isPositive)
  \/ \E configB \in ConfigBs(sources), random \in {"A", "B"} :
        startABTest(configB, random)
  \/ switchABTestConfig
  \/ endABTest
  \/ applyWinningConfig
  \/ clearABTest
  \/ Tick

SpecTimed == Init /\ [][NextTimed]_vars

\* endABTest on a running experiment with any counters up to MaxCount
Counters ==
  {c \in (0..MaxCount) \X (0..MaxCount) \X (0..MaxCount) \X (0..MaxCount) :
     c[2] <= c[1] /\ c[4] <= c[3]}

InitEnd ==
  /\ Base0
  /\ sources = SavedRegistry(0)
  /\ \E c \in Counters :
        activeABTest = SavedTest(SavedRegistry(0), SavedConfigB, "A", c)
  /\ Loaded

NextEnd == endABTest

SpecEnd == InitEnd /\ [][NextEnd]_vars

\* ingestion and removal on a fresh installation
InitIndex ==
  /\ Base0
  /\ sources = <<>>
  /\ activeABTest = NoTest
  /\ Loaded

NextIndex ==
  \/ \E name \in Names, embs \in DocEmbeddings : processFile(name, embs)
  \/ \E url \in Names, title \in Titles, embs \in DocEmbeddings :
        processURL(url, title, embs)
  \/ \E id \in Ids(sources) \cup {GhostId} : removeSource(id)
  \/ clear

SpecIndex == InitIndex /\ [][NextIndex]_vars

\* feedback on a source with any saved history of up to MaxHistory ratings,
\* given at time 0 and at time 1
RECURSIVE RatedSeq(_, _, _)
RatedSeq(source, ratings, t) ==
  IF ratings = <<>> THEN source
  ELSE FeedbackOne(RatedSeq(source, SubSeq(ratings, 1, Len(ratings) - 1), t),
                   ratings[Len(ratings)], t)

Ratings == UNION {[1..n -> BOOLEAN] : n \in 0..MaxHistory}

SavedOld == NewSource(<<"file", 0, "a">>, "a", 1, 0)

InitFeedback ==
  /\ Base0
  /\ activeABTest = NoTest
  /\ \E h0 \in Ratings, h1 \in Ratings :
        /\ Len(h0) + Len(h1) <= MaxHistory
        /\ sources = <<RatedSeq(RatedSeq(SavedOld, h0, 0), h1, 1), SavedB>>
  /\ Loaded

NextFeedback ==
  \/ \E ids \in SourceIdLists, isPositive \in BOOLEAN : processFeedback(ids, isPositive)
  \/ Tick

SpecFeedback == InitFeedback /\ [][NextFeedback]_vars

\* feedback on a source with a saved history of up to MaxRatings ratings given
\* at time 1, the positive ones first; the priority was set back to the default
\* before the last of them
Events(p, n, t) ==
  [i \in 1..(p + n) |-> [timestamp |-> t, isPositive |-> i <= p, weight |-> <<1, 1>>]]

Prepared(source, p, n, t) ==
  updateLearningScoreWithDecay(
    [source EXCEPT !.usageStats.feedbackHistory = Events(p, n, t),
                   !.usageStats.positiveRatings = p,
                   !.usageStats.negativeRatings = n], t)

SavedRated(source, p, n, t) ==
  IF p + n = 0 THEN source
  ELSE IF n > 0 THEN FeedbackOne(Prepared(source, p, n - 1, t), FALSE, t)
  ELSE FeedbackOne(Prepared(source, p - 1, 0, t), TRUE, t)

InitAdjust ==
  /\ Base0
  /\ activeABTest = NoTest
  /\ \E p \in 0..MaxRatings, n \in 0..MaxRatings :
        /\ p + n <= MaxRatings
        /\ sources = <<SavedRated(SavedA, p, n, 1), SavedB>>
  /\ Loaded

AdjustIdLists == {<<SavedA.id>>}

NextAdjust ==
  \/ \E ids \in AdjustIdLists, isPositive \in BOOLEAN : processFeedback(ids, isPositive)
  \/ \E priority \in UserPriorities : updateSourcePriority(SavedA.id, priority)
  \/ Tick

SpecAdjust == InitAdjust /\ [][NextAdjust]_vars

\* a session in which the store stops and resumes accepting writes, and the
\* page is reloaded
quotaExceeded ==
  /\ writable
  /\ writable' = FALSE
  /\ UNCHANGED <<sources, chunks, activeABTest, now, nextChunk, inflight, fbCalls, localStorage>>

quotaFreed ==
  /\ ~writable
  /\ writable' = TRUE
  /\ UNCHANGED <<sources, chunks, activeABTest, now, nextChunk, inflight, fbCalls, localStorage>>

\* the constructor of a new session: the vector store is empty again
reload ==
  /\ sources' = loadSourcesFromStorage(localStorage)
  /\ activeABTest' = loadABTest(localStorage)
  /\ chunks' = <<>>
  /\ UNCHANGED <<now, nextChunk, inflight, fbCalls, localStorage, writable>>

NextStorage ==
  \/ \E ids \in SourceIdLists, isPositive \in BOOLEAN : processFeedback(ids, isPositive)
  \/ \E id \in Ids(sources) \cup {GhostId} : removeSource(id)
  \/ endABTest
  \/ clearABTest
  \/ quotaExceeded
  \/ quotaFreed
  \/ reload

SpecStorage == Init /\ [][NextStorage]_vars

\* priorities as an untyped caller or an imported file can carry them
AnyPriorities == {0, 3, 9}

\* the sources arrays of the imported files
ImportedSources ==
  {<<>>} \cup {<<[SavedA EXCEPT !.priority = p]>> : p \in AnyPriorities}

\* importConfiguration of a file with a version and a sources array, without
\* appSettings, ollamaConfig and activeABTest
importConfiguration(array) ==
  /\ sources' = SetAll(<<>>, array)
  /\ localStorage' = saveSourcesToStorage(localStorage, sources')
  /\ UNCHANGED <<chunks, activeABTest, now, nextChunk, inflight, fbCalls, writable>>

AnyConfigBs(srcs) == UNION {[{i} -> AnyPriorities] : i \in Ids(srcs)}

NextInput ==
  \/ \E id \in Ids(sources), priority \in AnyPriorities :
        updateSourcePriority(id, priority)
  \/ \E array \in ImportedSources : importConfiguration(array)
  \/ \E configB \in AnyConfigBs(sources), random \in {"A", "B"} :
        startABTest(configB, random)
  \/ switchABTestConfig

SpecInput == Init /\ [][NextInput]_vars

\* the vector store alone, with chunks of two embedding models
StoreIds == {1, 2, 3}
StoreEmbeddings == {<<>>, <<1, 0>>, <<1, 0, 0>>}
StoreQueries == {<<1, 0>>, <<1, 0, 0>>}
StoreChunks == [id : StoreIds, source : Names, embedding : StoreEmbeddings]
StoreLists == UNION {[1..n -> StoreChunks] : n \in 0..2}

\* this.chunks.set(chunk.id, chunk)
ChunkSet(cs, chunk) ==
  IF \E i \in 1..Len(cs) : cs[i].id = chunk.id
  THEN [i \in 1..Len(cs) |-> IF cs[i].id = chunk.id THEN chunk ELSE cs[i]]
  ELSE Append(cs, chunk)

RECURSIVE ChunkSetAll(_, _)
ChunkSetAll(cs, list) ==
  IF list = <<>> THEN cs ELSE ChunkSetAll(ChunkSet(cs, Head(list)), Tail(list))

add(chunk) ==
  /\ chunks' = ChunkSet(chunks, chunk)
  /\ UNCHANGED <<sources, activeABTest, now, nextChunk, inflight, fbCalls, localStorage, writable>>

addMany(list) ==
  /\ chunks' = ChunkSetAll(chunks, list)
  /\ UNCHANGED <<sources, activeABTest, now, nextChunk, inflight, fbCalls, localStorage, writable>>

removeChunksBySource(name) ==
  /\ chunks' = removeBySource(chunks, name)
  /\ UNCHANGED <<sources, activeABTest, now, nextChunk, inflight, fbCalls, localStorage, writable>>

clearChunks ==
  /\ chunks' = <<>>
  /\ UNCHANGED <<sources, activeABTest, now, nextChunk, inflight, fbCalls, localStorage, writable>>

NextStore ==
  \/ \E chunk \in StoreChunks : add(chunk)
  \/ \E list \in StoreLists : addMany(list)
  \/ \E name \in Names : removeChunksBySource(name)
  \/ clearChunks

SpecStore == InitIndex /\ [][NextStore]_vars

\* the vector store with chunks in three directions, with and without a
\* priority of their own
RankEmbeddings == {<<>>, <<1, 0>>, <<1, 1>>, <<0, 1>>, <<-1, 0>>}
RankChunks ==
  [id : StoreIds, source : Names, embedding : RankEmbeddings]
  \cup [id : StoreIds, source : {"a"}, embedding : RankEmbeddings, priority : {1, 5}]
RankQueries == {<<1, 0>>, <<1, 1>>}
RankMaps == {<<>>, "a" :> 2, ("a" :> 4) @@ ("b" :> 1)}
TopKs == {1, 5}

NextRank ==
  \/ \E chunk \in RankChunks : add(chunk)
  \/ \E name \in Names : removeChunksBySource(name)

SpecRank == InitIndex /\ [][NextRank]_vars

(***************************************************************************)
(* Recommendations                                                         *)
(***************************************************************************)
\* upper - lower < tn / td as generateRecommendations computes it: 0.7 - 0.3
\* of the default interval is the double just below 0.4
WidthLT(ci, tn, td) ==
  IF ci.kind = "default" THEN 10 * tn >= 4 * td ELSE ~WidthGE(ci, tn, td)

\* daysSinceLastUse !== undefined && daysSinceLastUse > 30 && timesUsed < 5
Unused(source, t) ==
  /\ source.usageStats.lastUsed # 0
  /\ t - source.usageStats.lastUsed > StaleAfter
  /\ source.usageStats.timesUsed < RarelyUsed

\* a recommendation; suggestedPriority 0 when it has none
Recommendation(source, type, suggested, confidence, impact) ==
  [sourceId |-> source.id, type |-> type, currentPriority |-> source.priority,
   suggestedPriority |-> suggested, confidence |-> confidence, impact |-> impact]

Min(a, b) == IF a < b THEN a ELSE b
Max(a, b) == IF a > b THEN a ELSE b

\* the branch of the narrow interval, confidenceWidth < 0.2
HighConfidence(source) ==
  LET score == source.usageStats.learningScore
      totalRatings == source.usageStats.positiveRatings + source.usageStats.negativeRatings
  IN  IF RatGE(score, <<17, 20>>) /\ source.priority < 5
      THEN <<Recommendation(source, "increase_priority", Min(5, source.priority + 1),
                            "high", "high")>>
      ELSE IF RatGE(score, <<7, 10>>) /\ source.priority <= 2
      THEN <<Recommendation(source, "increase_priority", 3, "high", "medium")>>
      ELSE IF RatGE(<<3, 10>>, score)
      THEN IF totalRatings >= 10
           THEN <<Recommendation(source, "remove", 0, "high", "high")>>
           ELSE IF source.priority > 1
           THEN <<Recommendation(source, "decrease_priority",
                                 Max(1, source.priority - 1), "medium", "medium")>>
           ELSE <<>>
      ELSE IF RatGT(<<1, 2>>, score) /\ source.priority >= 4
      THEN <<Recommendation(source, "decrease_priority", 3, "high", "medium")>>
      ELSE <<>>

\* the branch of the medium interval, 0.2 <= confidenceWidth < 0.4
MediumConfidence(source) ==
  LET score == source.usageStats.learningScore
      totalRatings == source.usageStats.positiveRatings + source.usageStats.negativeRatings
  IN  IF RatGE(score, <<3, 4>>) /\ source.priority < 4
      THEN <<Recommendation(source, "increase_priority", Min(5, source.priority + 1),
                            "medium", "medium")>>
      ELSE IF RatGE(<<1, 4>>, score) /\ totalRatings >= 5
      THEN <<Recommendation(source, "decrease_priority", Max(1, source.priority - 1),
                            "medium", "medium")>>
      ELSE <<>>

\* the body of the loop of generateRecommendations for one source
RecommendOne(source, t) ==
  LET ci == source.usageStats.confidenceInterval
      totalRatings == source.usageStats.positiveRatings + source.usageStats.negativeRatings
  IN  IF totalRatings < 3
      THEN <<Recommendation(source, "keep_current", 0, "low", "low")>>
      ELSE (IF WidthLT(ci, 1, 5) THEN HighConfidence(source)
            ELSE IF WidthLT(ci, 2, 5) THEN MediumConfidence(source)
            ELSE <<>>)
           \o (IF Unused(source, t)
               THEN <<Recommendation(source, "remove", 0, "medium", "low")>>
               ELSE <<>>)

\* impactOrder and confidenceOrder of the final sort
LevelOrder(level) == IF level = "high" THEN 0 ELSE IF level = "medium" THEN 1 ELSE 2

\* a before b by the comparator of the sort: impact, then confidence
RecommendedBefore(a, b) ==
  \/ LevelOrder(a.impact) < LevelOrder(b.impact)
  \/ /\ LevelOrder(a.impact) = LevelOrder(b.impact)
     /\ LevelOrder(a.confidence) < LevelOrder(b.confidence)

RECURSIVE InsertRecommendation(_, _)
InsertRecommendation(sorted, r) ==
  IF sorted = <<>> THEN <<r>>
  ELSE IF RecommendedBefore(r, sorted[Len(sorted)])
    THEN InsertRecommendation(SubSeq(sorted, 1, Len(sorted) - 1), r)
         \o <<sorted[Len(sorted)]>>
  ELSE sorted \o <<r>>

RECURSIVE SortRecommendations(_)
SortRecommendations(list) ==
  IF list = <<>> THEN <<>>
  ELSE InsertRecommendation(SortRecommendations(SubSeq(list, 1, Len(list) - 1)),
                            list[Len(list)])

RECURSIVE RecommendAll(_, _)
RecommendAll(srcs, t) ==
  IF srcs = <<>> THEN <<>>
  ELSE RecommendOne(Head(srcs), t) \o RecommendAll(Tail(srcs), t)

\* generateRecommendations() called at time t
generateRecommendations(srcs, t) == SortRecommendations(RecommendAll(srcs, t))

\* what applyRecommendation returns for a recommendation in the current state
applyRecommendationReturns(recommendation) ==
  /\ recommendation.sourceId \in Ids(sources)
  /\ recommendation.type \in {"increase_priority", "decrease_priority"}
        => recommendation.suggestedPriority # 0

applyRecommendation(recommendation) ==
  /\ IF recommendation.sourceId \notin Ids(sources)
     THEN UNCHANGED <<sources, chunks, localStorage>>
     ELSE IF recommendation.type \in {"increase_priority", "decrease_priority"}
     THEN IF recommendation.suggestedPriority # 0
          THEN /\ sources' = MapSet(sources,
                                    [Get(sources, recommendation.sourceId) EXCEPT
                                       !.priority = recommendation.suggestedPriority])
               /\ localStorage' = saveSourcesToStorage(localStorage, sources')
               /\ UNCHANGED chunks
          ELSE UNCHANGED <<sources, chunks, localStorage>>
     ELSE IF recommendation.type = "remove"
     THEN /\ chunks' = removeBySource(chunks, Get(sources, recommendation.sourceId).name)
          /\ sources' = MapDelete(sources, recommendation.sourceId)
          /\ localStorage' = saveSourcesToStorage(localStorage, sources')
     ELSE UNCHANGED <<sources, chunks, localStorage>>
  /\ UNCHANGED <<activeABTest, now, nextChunk, inflight, fbCalls, writable>>

\* Date.now() advances by one half-life, up to one past MaxTime: the oldest
\* event of this session is of time 1, so that no event is older than MaxTime
Elapse ==
  /\ now <= MaxTime
  /\ now' = now + 1
  /\ UNCHANGED <<sources, chunks, activeABTest, nextChunk, inflight, fbCalls, localStorage,
                 writable>>

\* the saved histories of the source: positive and negative ratings of time 1
RecommendRatings ==
  {<<0, 0>>, <<1, 1>>, <<9, 0>>, <<0, 9>>, <<20, 0>>, <<0, 20>>, <<30, 2>>}

\* a source that was used before it was saved
Used(source, times, t) ==
  IF times = 0 THEN source
  ELSE [source EXCEPT !.usageStats.timesUsed = times, !.usageStats.lastUsed = t]

InitRecommend ==
  /\ Base0
  /\ activeABTest = NoTest
  /\ \E r \in RecommendRatings, times \in {0, RarelyUsed - 1} :
        sources = <<Used(SavedRated(SavedA, r[1], r[2], 1), times, 1)>>
  /\ Loaded

NextRecommend ==
  \/ \E isPositive \in BOOLEAN : processFeedback(<<SavedA.id>>, isPositive)
  \/ \E priority \in Priorities : updateSourcePriority(SavedA.id, priority)
  \/ /\ \A i \in 1..Len(sources) : sources[i].usageStats.timesUsed < RarelyUsed
     /\ recordSourceUsage(<<SavedA.id>>)
  \/ \E i \in 1..Len(generateRecommendations(sources, now)) :
        applyRecommendation(generateRecommendations(sources, now)[i])
  \/ Elapse

SpecRecommend == InitRecommend /\ [][NextRecommend]_vars

(***************************************************************************)
(* Export and import of the configuration                                  *)
(***************************************************************************)
\* JSON.stringify of the experiment as it is held: a Map has no enumerable
\* property and is written as {}, which parses as the object without
\* properties, held here as the function of no argument
NoProperties == <<>>

ExportTest(test) ==
  [test EXCEPT !.configA.sourcePriorities = NoProperties,
               !.configB.sourcePriorities = NoProperties,
               !.results.configAStats = StringifyStats(@),
               !.results.configBStats = StringifyStats(@),
               !.results.pValue = StringifyNumber(@)]

\* what JSON.parse returns for the text of exportConfiguration(); activeABTest
\* is null, held as NoTest, when there is no experiment
exportConfiguration(srcs, test) ==
  [version |-> "1.0",
   sources |-> StringifySources(srcs),
   activeABTest |-> IF test = NoTest THEN NoTest ELSE ExportTest(test)]

\* importConfiguration of a file with a version, a sources array and
\* activeABTest.  The experiment is installed as parsed; saveABTest then calls
\* Object.fromEntries on an object that is not iterable and the catch logs the
\* TypeError, so that rag_ab_test keeps its value.
importConfigurationOf(config) ==
  /\ sources' = SetAll(<<>>, config.sources)
  /\ localStorage' = saveSourcesToStorage(localStorage, sources')
  /\ IF config.activeABTest # NoTest
     THEN activeABTest' = config.activeABTest
     ELSE UNCHANGED activeABTest
  /\ UNCHANGED <<chunks, now, nextChunk, inflight, fbCalls, writable>>

\* a session that exports its configuration and imports the exported file
NextImport ==
  \/ \E id \in Ids(sources), priority \in Priorities : updateSourcePriority(id, priority)
  \/ \E configB \in ConfigBs(sources), random \in {"A", "B"} :
        startABTest(configB, random)
  \/ clearABTest
  \/ importConfigurationOf(exportConfiguration(sources, activeABTest))

SpecImport == Init /\ [][NextImport]_vars

\* a session with every operation that touches a source's statistics: feedback,
\* usage, ingestion, priority changes and experiments, on a source that was
\* rated at time 0 and a file ingested in the session
IngestedA == <<"file", 1, "a">>
HistoryIdLists == {<<SavedOld.id>>, <<IngestedA, SavedOld.id>>}
SavedHistories == {<<>>, <<FALSE, TRUE>>}

InitHistory ==
  /\ Base0
  /\ activeABTest = NoTest
  /\ \E h \in SavedHistories : sources = <<RatedSeq(SavedOld, h, 0)>>
  /\ Loaded

NextHistory ==
  \/ \E ids \in HistoryIdLists, isPositive \in BOOLEAN : processFeedback(ids, isPositive)
  \/ /\ \A i \in 1..Len(sources) : sources[i].usageStats.timesUsed = 0
     /\ recordSourceUsage(<<SavedOld.id>>)
  \/ processFile("a", <<>>)
  \/ \E priority \in UserPriorities : updateSourcePriority(SavedOld.id, priority)
  \/ /\ activeABTest = NoTest
     /\ startABTest(SavedOld.id :> 5, "A")
  \/ switchABTestConfig
  \/ endABTest
  \/ applyWinningConfig
  \/ clearABTest

SpecHistory == InitHistory /\ [][NextHistory]_vars

(***************************************************************************)
(* Ingestion and query as they run: each is suspended at its awaits, and   *)
(* other calls run in between.  inflight holds the suspended calls.        *)
(***************************************************************************)
\* a suspended ingestion with its chunks, a suspended query with its embedding
Ingestion(name, batch) == [op |-> "ingest", name |-> name, batch |-> batch, q |-> <<>>, k |-> 0]
Query(q, k) == [op |-> "query", name |-> "", batch |-> <<>>, q |-> q, k |-> k]

AsyncDocs == {<<<<1, 0>>>>, <<<<1, 0>>, <<1, 1>>>>}

\* processPDF and the other ingestions up to the last await: the document is
\* parsed and chunked, the chunks have their ids, the embeddings are requested
embedFile(name, embs) ==
  /\ Cardinality(inflight) < MaxInflight
  /\ nextChunk + Len(embs) <= MaxIngested
  /\ inflight' = inflight \cup {Ingestion(name, NewChunks(name, embs, nextChunk))}
  /\ nextChunk' = nextChunk + Len(embs)
  /\ UNCHANGED <<sources, chunks, activeABTest, now, fbCalls, localStorage, writable>>

\* the rest of the ingestion with the chunks stored one at a time
storeFileOneByOne(p) ==
  /\ p \in inflight
  /\ p.op = "ingest"
  /\ chunks' = chunks \o SubSeq(p.batch, 1, 1)
  /\ inflight' = (inflight \ {p})
                 \cup (IF Len(p.batch) > 1 THEN {[p EXCEPT !.batch = Tail(@)]} ELSE {})
  /\ UNCHANGED <<sources, activeABTest, now, nextChunk, fbCalls, localStorage, writable>>

\* the ingestion from vectorStore.addMany on, after the embeddings arrived
storeFile(p) ==
  /\ p \in inflight
  /\ p.op = "ingest"
  /\ <<"file", now, p.name>> \in Ids(sources) \/ Len(sources) < MaxSources
  /\ chunks' = chunks \o p.batch
  /\ sources' = MapSet(sources, NewSource(<<"file", now, p.name>>, p.name,
                                          Len(p.batch), now))
  /\ localStorage' = saveSourcesToStorage(localStorage, sources')
  /\ inflight' = inflight \ {p}
  /\ UNCHANGED <<activeABTest, now, nextChunk, fbCalls, writable>>

\* the request for the embeddings fails and the ingestion throws
rejectFile(p) ==
  /\ p \in inflight
  /\ p.op = "ingest"
  /\ inflight' = inflight \ {p}
  /\ UNCHANGED <<sources, chunks, activeABTest, now, nextChunk, fbCalls, localStorage,
                 writable>>

\* query up to its await: it returns [] at once when the store is empty
embedQuery(q, k) ==
  /\ Cardinality(inflight) < MaxInflight
  /\ inflight' = IF Len(chunks) = 0 THEN inflight ELSE inflight \cup {Query(q, k)}
  /\ UNCHANGED <<sources, chunks, activeABTest, now, nextChunk, fbCalls, localStorage,
                 writable>>

\* what a suspended query returns when it resumes in the current state
queryReturns(p) == searchWeighted(chunks, p.q, p.k, PriorityMap(sources)).results

\* query from the priority map on, after the embedding arrived
searchQuery(p) ==
  /\ p \in inflight
  /\ p.op = "query"
  /\ inflight' = inflight \ {p}
  /\ UNCHANGED <<sources, chunks, activeABTest, now, nextChunk, fbCalls, localStorage,
                 writable>>

NextAsync ==
  \/ \E name \in Names, embs \in AsyncDocs : embedFile(name, embs)
  \/ \E p \in inflight : storeFile(p)
  \/ \E p \in inflight : rejectFile(p)
  \/ \E k \in TopKs : embedQuery(<<1, 0>>, k)
  \/ \E p \in inflight : searchQuery(p)
  \/ \E id \in Ids(sources) : removeSource(id)

SpecAsync == InitIndex /\ [][NextAsync]_vars

(***************************************************************************)
(* Properties                                                              *)
(***************************************************************************)
\* every registered source that the configuration lists has its priority
ListedHavePriority(srcs, config) ==
  \A i \in 1..Len(srcs) :
     srcs[i].id \in DOMAIN config.sourcePriorities
        => srcs[i].priority = config.sourcePriorities[srcs[i].id]

ConfigOf(test, which) == IF which = "A" THEN test.configA ELSE test.configB

\* a step of startABTest, with the configuration and the draw that the new
\* experiment records
AnyStart ==
  /\ activeABTest' # NoTest
  /\ activeABTest'.configB.sourcePriorities \in ConfigBs(sources)
  /\ startABTest(activeABTest'.configB.sourcePriorities, activeABTest'.activeConfig)

\* C1: a startABTest call made while an experiment is Running is rejected: it
\* leaves the running experiment and every source's priority unchanged.
C1_StartRejectedWhileRunning ==
  [][(Running /\ AnyStart) => UNCHANGED <<activeABTest, sources>>]_vars

\* C2: a Running experiment never becomes NoTest without passing through Ended,
\* and an Ended experiment becomes NoTest only by clearABTest or by
\* applyWinningConfig.
C2_Lifecycle ==
  [][/\ Running => activeABTest' # NoTest
     /\ (Ended /\ activeABTest' = NoTest) => (clearABTest \/ applyWinningConfig)]_vars

\* C3: once endedAt is set, endABTest returns null and changes neither the
\* experiment (endedAt, winner, pValue, statistics) nor any source.
C3_EndIdempotent ==
  [][/\ Ended => endABTestReturns = "null"
     /\ (Ended /\ endABTest) => UNCHANGED <<activeABTest, sources>>]_vars

\* C3 witness: an ended experiment at a time later than its endedAt
C3_Witness == Ended /\ activeABTest.endedAt < now

Abs(x) == IF x < 0 THEN -x ELSE x

\* the winner by the stated rule, in exact arithmetic
RuleWinner(statsA, statsB) ==
  LET qA == statsA.questionsAnswered
      qB == statsB.questionsAnswered
      pA == statsA.positiveRatings
      pB == statsB.positiveRatings
  IN  IF qA < 10 \/ qB < 10 \/ 20 * Abs(pA * qB - pB * qA) < qA * qB
      THEN "inconclusive"
      ELSE IF pA * qB > pB * qA THEN "A" ELSE "B"

\* C4: the winner that endABTest stores is 'inconclusive' if the rates differ by
\* less than 0.05 or a side has fewer than 10 questions, and otherwise the side
\* with the strictly higher rate.
C4_WinnerRule ==
  Ended => activeABTest.results.winner =
             RuleWinner(activeABTest.results.configAStats,
                        activeABTest.results.configBStats)

HasWinner == Ended /\ activeABTest.results.winner \in {"A", "B"}

\* C5: applyWinningConfig returns true exactly when the experiment is Ended with
\* winner A or B; otherwise it changes neither the sources nor the experiment;
\* when it succeeds the experiment is cleared and every registered source that
\* the winning configuration lists has that configuration's priority.
C5_ApplyWinner ==
  [][/\ applyWinningConfigReturns <=> HasWinner
     /\ applyWinningConfig =>
          IF HasWinner
          THEN /\ activeABTest' = NoTest
               /\ ListedHavePriority(sources',
                     ConfigOf(activeABTest, activeABTest.results.winner))
          ELSE UNCHANGED <<activeABTest, sources>>]_vars

\* C5 witness: an ended experiment with a winner whose priorities are not the
\* current ones
C5_Witness ==
  /\ HasWinner
  /\ ~ListedHavePriority(sources, ConfigOf(activeABTest, activeABTest.results.winner))

Flip(which) == IF which = "A" THEN "B" ELSE "A"

\* C6: while Running, switchABTestConfig flips activeConfig and afterwards every
\* registered source that the newly active configuration lists has its priority;
\* without an experiment or once Ended it changes neither activeConfig nor any
\* source.
C6_Switch ==
  [][switchABTestConfig =>
       IF Running
       THEN /\ activeABTest' # NoTest
            /\ activeABTest'.activeConfig = Flip(activeABTest.activeConfig)
            /\ ListedHavePriority(sources',
                  ConfigOf(activeABTest, Flip(activeABTest.activeConfig)))
       ELSE UNCHANGED <<activeABTest, sources>>]_vars

\* C6 witness: a running experiment whose active configuration has no answers
\* counted while the other one has, and whose priorities are in force
C6_Witness ==
  /\ Running
  /\ ActiveStats(activeABTest).questionsAnswered = 0
  /\ (IF activeABTest.activeConfig = "A"
      THEN activeABTest.results.configBStats
      ELSE activeABTest.results.configAStats).questionsAnswered > 0
  /\ ListedHavePriority(sources, ConfigOf(activeABTest, activeABTest.activeConfig))
  /\ ~ListedHavePriority(sources, ConfigOf(activeABTest, Flip(activeABTest.activeConfig)))

ZeroCounters(stats) ==
  /\ stats.questionsAnswered = 0
  /\ stats.positiveRatings = 0
  /\ stats.negativeRatings = 0
  /\ stats.avgConfidence = [kind |-> "zero", of |-> <<>>]

\* C7: startABTest stores as configA the priority every registered source had
\* immediately before the call, sets activeConfig to A or B, starts both
\* configurations' statistics at zero, and leaves every registered source that
\* the active configuration lists with that configuration's priority.
C7_StartSnapshot ==
  [][AnyStart =>
       /\ activeABTest' # NoTest
       /\ DOMAIN activeABTest'.configA.sourcePriorities = Ids(sources)
       /\ \A i \in 1..Len(sources) :
             activeABTest'.configA.sourcePriorities[sources[i].id] = sources[i].priority
       /\ activeABTest'.activeConfig \in {"A", "B"}
       /\ ZeroCounters(activeABTest'.results.configAStats)
       /\ ZeroCounters(activeABTest'.results.configBStats)
       /\ ListedHavePriority(sources',
             ConfigOf(activeABTest', activeABTest'.activeConfig))]_vars

\* C7 witness: a newly started experiment whose control holds a priority other
\* than the default
C7_Witness ==
  /\ Running
  /\ ZeroCounters(activeABTest.results.configAStats)
  /\ ZeroCounters(activeABTest.results.configBStats)
  /\ \E id \in DOMAIN activeABTest.configA.sourcePriorities :
        activeABTest.configA.sourcePriorities[id] # DefaultPriority

InactiveStats(test) ==
  IF test.activeConfig = "A" THEN test.results.configBStats
  ELSE test.results.configAStats

\* C8: each processFeedback call made while an experiment is Running, whatever
\* the number of source ids it carries, adds exactly 1 to the active
\* configuration's questionsAnswered and exactly 1 to its positiveRatings or
\* negativeRatings, and leaves the inactive configuration's statistics unchanged.
C8_FeedbackCounted ==
  [][\A ids \in SourceIdLists, isPositive \in BOOLEAN :
       (Running /\ processFeedback(ids, isPositive)) =>
          /\ activeABTest' # NoTest
          /\ activeABTest'.activeConfig = activeABTest.activeConfig
          /\ ActiveStats(activeABTest').questionsAnswered =
                ActiveStats(activeABTest).questionsAnswered + 1
          /\ ActiveStats(activeABTest').positiveRatings =
                ActiveStats(activeABTest).positiveRatings + (IF isPositive THEN 1 ELSE 0)
          /\ ActiveStats(activeABTest').negativeRatings =
                ActiveStats(activeABTest).negativeRatings + (IF isPositive THEN 0 ELSE 1)
          /\ InactiveStats(activeABTest') = InactiveStats(activeABTest)]_vars

\* the names of the chunks a search or a weighted search returns for some
\* query and topK
RECURSIVE ResultNames(_)
ResultNames(results) ==
  IF results = <<>> THEN {}
  ELSE {Head(results).chunk.source} \cup ResultNames(Tail(results))

HitNames(cs, srcs) ==
  UNION {ResultNames(search(cs, q, k).results)
           \cup ResultNames(searchWeighted(cs, q, k, PriorityMap(srcs)).results) :
           q \in Queries, k \in 1..MaxChunks}

\* the names of the stored chunks that have an embedding
EmbeddedNames(cs) == {cs[i].source : i \in {j \in 1..Len(cs) : cs[j].embedding # <<>>}}

Ingests(name) ==
  \/ \E embs \in DocEmbeddings : processFile(name, embs)
  \/ \E title \in Titles, embs \in DocEmbeddings : processURL(name, title, embs)

\* C9: after removeSource(id) of a registered source no search or weighted
\* search returns a chunk whose source is the removed source's name, and
\* getSource and getSources no longer return the source; this lasts until an
\* ingestion under that name: the searches return chunks of exactly the names
\* that have a stored chunk with an embedding, and a name gets one only by an
\* ingestion under it.
C9_RemovalCascades ==
  /\ [](HitNames(chunks, sources) = EmbeddedNames(chunks))
  /\ [][/\ \A id \in Ids(sources) :
             removeSource(id) =>
                /\ Get(sources, id).name \notin HitNames(chunks', sources')
                /\ getSource(sources', id) = <<>>
                /\ \A i \in 1..Len(getSources(sources')) :
                      getSources(sources')[i].id # id
        /\ \A name \in EmbeddedNames(chunks') \ EmbeddedNames(chunks) :
              Ingests(name)]_vars

\* C9 witness: some chunks have been removed, others are still searchable, and
\* a name without a registered source has no searchable chunk
C9_Witness ==
  /\ Len(chunks) < nextChunk
  /\ HitNames(chunks, sources) # {}
  /\ \E name \in Names \ HitNames(chunks, sources) :
        \A i \in 1..Len(sources) : sources[i].name # name

Score(source) == source.usageStats.learningScore

\* C10 as stated: processFeedback(ids, true) leaves the learningScore of every
\* source it rates greater than or equal to the learningScore held before.
C10_PositiveNeverLowers ==
  [][\A ids \in SourceIdLists :
       processFeedback(ids, TRUE) =>
          \A i \in 1..Len(sources) :
             (\E j \in 1..Len(ids) : ids[j] = sources[i].id)
                => RatGE(Score(sources'[i]), Score(sources[i]))]_vars

\* no time has passed since the last feedback of the source, if it has any
ScoreCurrent(source) ==
  LET history == source.usageStats.feedbackHistory
  IN  history = <<>> \/ history[Len(history)].timestamp = now

\* C10 amended: processFeedback(ids, true) leaves the learningScore of every
\* source it rates greater than or equal to the learningScore its existing
\* history has when decayed to the time of the call, which is the score held
\* before the call when no time has passed since the source's last feedback.
C10_PositiveNeverLowersDecayed ==
  [][\A ids \in SourceIdLists :
       processFeedback(ids, TRUE) =>
          \A i \in 1..Len(sources) :
             (\E j \in 1..Len(ids) : ids[j] = sources[i].id)
                => /\ RatGE(Score(sources'[i]),
                            Score(updateLearningScoreWithDecay(sources[i], now)))
                   /\ ScoreCurrent(sources[i])
                         => RatGE(Score(sources'[i]), Score(sources[i]))]_vars

\* C10 witness: a positive rating has just been added to a history with an
\* older negative and an older positive rating
C10_Witness ==
  /\ fbCalls > 0
  /\ \E i \in 1..Len(sources) :
        LET history == sources[i].usageStats.feedbackHistory
        IN  /\ Len(history) >= 3
            /\ history[Len(history)].timestamp = now
            /\ history[Len(history)].isPositive
            /\ \E j, k \in 1..(Len(history) - 1) :
                  /\ history[j].timestamp < now
                  /\ history[j].isPositive /\ ~history[k].isPositive

Count(source) == source.usageStats.positiveRatings + source.usageStats.negativeRatings

Rates(ids, source) == \E j \in 1..Len(ids) : ids[j] = source.id

\* the history is k positive ratings given at time t and nothing else
AllPositiveAt(source, k, t) ==
  LET history == source.usageStats.feedbackHistory
  IN  /\ Len(history) = k
      /\ \A i \in 1..k : history[i].isPositive /\ history[i].timestamp = t

\* processFeedback has just rated the source
JustRated(source) ==
  LET history == source.usageStats.feedbackHistory
  IN  fbCalls > 0 /\ history # <<>> /\ history[Len(history)].timestamp = now

\* C11 as stated: after 20 positive and no negative ratings at one timestamp on
\* a fresh source the width of its confidence interval is below 0.1.
C11_TwentyPositivesBelowTenth ==
  [][\A ids \in AdjustIdLists :
       processFeedback(ids, TRUE) =>
          \A i \in 1..Len(sources) :
             (Rates(ids, sources[i]) /\ AllPositiveAt(sources'[i], 20, now))
                => ~WidthGE(sources'[i].usageStats.confidenceInterval, 1, 10)]_vars

\* C11 amended: after 20 positive and no negative ratings at one timestamp on a
\* fresh source the width of its confidence interval is below 0.17, and so
\* below the gate of 0.3.
C11_TwentyPositivesBelowGate ==
  [][\A ids \in AdjustIdLists :
       processFeedback(ids, TRUE) =>
          \A i \in 1..Len(sources) :
             (Rates(ids, sources[i]) /\ AllPositiveAt(sources'[i], 20, now))
                => /\ ~WidthGE(sources'[i].usageStats.confidenceInterval, 17, 100)
                   /\ ~WidthGE(sources'[i].usageStats.confidenceInterval, 3, 10)]_vars

\* C11 witness: a source just rated for the twentieth time, always positively
C11_Witness == \E i \in 1..Len(sources) :
                  JustRated(sources[i]) /\ AllPositiveAt(sources[i], 20, now)


\* the priority the stated mapping gives to a score n / d
MappedPriority(score) ==
  IF 5 * score[1] >= 4 * score[2] THEN 5
  ELSE IF 20 * score[1] >= 13 * score[2] THEN 4
  ELSE IF 20 * score[1] >= 7 * score[2] THEN 3
  ELSE IF 5 * score[1] >= score[2] THEN 2
  ELSE 1

Interval(source) == source.usageStats.confidenceInterval

\* C12: when auto-adjustment fires in processFeedback (five or more ratings and
\* an interval no wider than the gate), the priority after the call is the
\* mapping of the recomputed learningScore: >= 0.8 -> 5, >= 0.65 -> 4,
\* >= 0.35 -> 3, >= 0.2 -> 2, otherwise 1; ten positive ratings at one time and
\* no negative one end with priority 5.
C12_AdjustedToMapping ==
  [][\A ids \in AdjustIdLists, isPositive \in BOOLEAN :
       processFeedback(ids, isPositive) =>
          \A i \in 1..Len(sources) :
             Rates(ids, sources[i]) =>
                /\ (Count(sources'[i]) >= 5 /\ ~WidthGT(Interval(sources'[i]), 3, 10))
                      => sources'[i].priority = MappedPriority(Score(sources'[i]))
                /\ AllPositiveAt(sources'[i], 10, now) => sources'[i].priority = 5]_vars

\* C12 witness: a source just rated whose narrow interval and score put it at
\* priority 4
C12_Witness ==
  \E i \in 1..Len(sources) :
     /\ JustRated(sources[i])
     /\ Count(sources[i]) >= 5
     /\ ~WidthGT(Interval(sources[i]), 3, 10)
     /\ MappedPriority(Score(sources[i])) = 4
     /\ sources[i].priority = 4

C14_AdjustedOnlyAtCrossing ==
  [][\A ids \in AdjustIdLists, isPositive \in BOOLEAN :
       processFeedback(ids, isPositive) =>
          \A i \in 1..Len(sources) :
             (Count(sources'[i]) < 5 \/ Count(sources[i]) >= 5)
                => sources'[i].priority = sources[i].priority]_vars

\* C14 amended: processFeedback changes no priority while the count of ratings
\* after the call is below 5; on every call after which the count is 5 or more,
\* the crossing one or a later one, it sets the priority to the mapping of the
\* score when the interval is at most 0.3 wide and leaves it otherwise.
C14_AdjustedAtOrPastThreshold ==
  [][\A ids \in AdjustIdLists, isPositive \in BOOLEAN :
       processFeedback(ids, isPositive) =>
          \A i \in 1..Len(sources) :
             Rates(ids, sources[i]) =>
                sources'[i].priority =
                   IF Count(sources'[i]) >= 5 /\ ~WidthGT(Interval(sources'[i]), 3, 10)
                   THEN MappedPriority(Score(sources'[i]))
                   ELSE sources[i].priority]_vars

\* C14 witness: a source just rated for at least the seventh time whose
\* priority is the mapping of its score and not the default
C14_Witness ==
  \E i \in 1..Len(sources) :
     /\ JustRated(sources[i])
     /\ Count(sources[i]) >= 7
     /\ ~WidthGT(Interval(sources[i]), 3, 10)
     /\ sources[i].priority = MappedPriority(Score(sources[i]))
     /\ sources[i].priority # DefaultPriority


\* C15: a priority outside 1..5 is rejected before it is stored, by
\* updateSourcePriority, by an experiment's configuration and by an import, so
\* that the priority of every registered source is in 1..5 in every state.
C15_PriorityInRange ==
  \A i \in 1..Len(sources) : sources[i].priority \in Priorities

\* C16: when the write to the store fails during processFeedback, the registry
\* in memory is rolled back: every source has the feedbackHistory, counters,
\* learningScore, confidenceInterval and priority it had before the call.
C16_RolledBack ==
  [][\A ids \in SourceIdLists, isPositive \in BOOLEAN :
       (~writable /\ processFeedback(ids, isPositive)) => sources' = sources]_vars

\* C17: write-through persistence.  While the store accepts writes, after
\* every operation the persisted sources and the persisted experiment are the
\* ones in memory: loading the store reconstructs the same registry and the
\* same experiment, both priority maps included.
C17_WriteThrough ==
  writable => /\ loadSourcesFromStorage(localStorage) = sources
              /\ loadABTest(localStorage) = activeABTest


\* C18: updateSourcePriority, removeSource and processFeedback called with an
\* id that is not registered change neither the registry nor the experiment.
C18_UnknownSourceNoChange ==
  [][\A priority \in UserPriorities, isPositive \in BOOLEAN :
       (\/ updateSourcePriority(GhostId, priority)
        \/ removeSource(GhostId)
        \/ processFeedback(<<GhostId>>, isPositive))
          => UNCHANGED <<sources, activeABTest>>]_vars

\* the embedded chunks of the store whose dimension is not the query's
Mismatched(cs, q) ==
  {i \in 1..Len(cs) : cs[i].embedding # <<>> /\ Len(cs[i].embedding) # Len(q)}

C20_OneDimension ==
  /\ \A i, j \in 1..Len(chunks) :
        (chunks[i].embedding # <<>> /\ chunks[j].embedding # <<>>)
           => Len(chunks[i].embedding) = Len(chunks[j].embedding)
  /\ \A q \in StoreQueries, k \in TopKs :
        \A r \in 1..Len(search(chunks, q, k).results) :
           search(chunks, q, k).results[r].chunk.embedding # <<>>


\* the chunks of a result list, and the priority the claim resolves for one
ResultIds(results) == {results[i].chunk.id : i \in 1..Len(results)}

StatedPriority(chunk, map) ==
  IF "priority" \in DOMAIN chunk THEN chunk.priority
  ELSE IF chunk.source \in DOMAIN map THEN map[chunk.source]
  ELSE 3

\* base * (0.5 + 0.2 * priority), in tenths of the similarity
StatedWeight(base, priority) == [d |-> base.d * (5 + 2 * priority), m |-> base.m]

\* the weighted score of an embedded chunk for a query
WeightOf(chunk, q, map) ==
  StatedWeight(cosineSimilarity(q, chunk.embedding), StatedPriority(chunk, map))

SameScore(x, y) == ~SimLess(x, y) /\ ~SimLess(y, x)

\* the results ranked for a query, all of them
Ranked(q, map) == searchWeighted(chunks, q, Len(chunks), map).results

\* C26 as stated: of two results with the same baseScore, the one of higher
\* priority is never ranked after the one of lower priority, whatever the
\* baseScore.
C26_PriorityNeverHurts ==
  \A q \in RankQueries, map \in RankMaps :
     LET r == Ranked(q, map)
     IN  \A i, j \in 1..Len(r) :
            (i < j /\ SameScore(r[i].score, r[j].score))
               => StatedPriority(r[i].chunk, map) >= StatedPriority(r[j].chunk, map)

\* C26 amended: of two results with the same positive baseScore the one of
\* higher priority is ranked first; with the same negative baseScore the one of
\* lower priority is ranked first.
C26_PriorityHelpsPositive ==
  \A q \in RankQueries, map \in RankMaps :
     LET r == Ranked(q, map)
     IN  \A i, j \in 1..Len(r) :
            (i < j /\ SameScore(r[i].score, r[j].score))
               => /\ r[i].score.d > 0
                       => StatedPriority(r[i].chunk, map) >= StatedPriority(r[j].chunk, map)
                  /\ r[i].score.d < 0
                       => StatedPriority(r[i].chunk, map) =< StatedPriority(r[j].chunk, map)

\* C26 witness: two results of the same positive baseScore, the second stored
\* first and of lower priority
C26_Witness ==
  \E q \in RankQueries, map \in RankMaps :
     LET r == Ranked(q, map)
     IN  \E i, j \in 1..Len(r) :
            /\ i < j
            /\ SameScore(r[i].score, r[j].score)
            /\ r[i].score.d > 0
            /\ StatedPriority(r[i].chunk, map) > StatedPriority(r[j].chunk, map)
            /\ \E a, b \in 1..Len(chunks) :
                  a < b /\ chunks[a] = r[j].chunk /\ chunks[b] = r[i].chunk


\* the name that the chunks ingested for a source carry: the file's name, the
\* page's url
TagOf(source) == source.id[3]

\* the chunks that the registered sources of a tag were ingested with
RECURSIVE Ingested(_, _)
Ingested(srcs, tag) ==
  IF srcs = <<>> THEN 0
  ELSE (IF TagOf(Head(srcs)) = tag THEN Head(srcs).chunks ELSE 0)
       + Ingested(Tail(srcs), tag)

Stored(cs, tag) == Cardinality({i \in 1..Len(cs) : cs[i].source = tag})

\* every registered source still has the chunks it was ingested with
Covered(cs, srcs) == \A tag \in Names : Stored(cs, tag) >= Ingested(srcs, tag)

\* C27 as stated: removeSource(id) removes only the chunks ingested for that
\* source; when every registered source has its chunks before the call, every
\* source still registered after it has them too, also when two registered
\* sources share a name.
C27_OthersKeepTheirChunks ==
  [][\A id \in Ids(sources) :
        (Covered(chunks, sources) /\ removeSource(id)) => Covered(chunks', sources')]_vars


\* what an ended experiment keeps: its end, its verdict, its side and its counters
Verdict(test) ==
  <<test.endedAt, test.results.winner, test.results.pValue, test.activeConfig,
    test.results.configAStats, test.results.configBStats>>

\* C28: once an experiment has ended, neither processFeedback nor
\* switchABTestConfig nor endABTest changes its endedAt, winner, pValue,
\* activeConfig or the statistics of either configuration; it stays as it ended
\* until it is cleared, applied or replaced.
C28_EndedIsFrozen ==
  [][(/\ Ended
      /\ \/ \E ids \in SourceIdLists, isPositive \in BOOLEAN :
               processFeedback(ids, isPositive)
         \/ switchABTestConfig
         \/ endABTest)
        => /\ activeABTest' # NoTest
           /\ Verdict(activeABTest') = Verdict(activeABTest)]_vars

\* C28 witness: an ended experiment and a source rated after the end
C28_Witness ==
  /\ Ended
  /\ \E i \in 1..Len(sources) :
        \E j \in 1..Len(sources[i].usageStats.feedbackHistory) :
           sources[i].usageStats.feedbackHistory[j].timestamp > activeABTest.endedAt


\* C29 as stated: endABTest sets pValue exactly when the two configurations
\* have answered more than 20 questions together, and whenever it is computed
\* the z-test is well defined: both configurations have a question and the
\* pooled rate is strictly between 0 and 1, so that pValue is a number obtained
\* without a division by zero.
C29_PValueWellDefined ==
  Ended =>
    LET statsA == activeABTest.results.configAStats
        statsB == activeABTest.results.configBStats
        n == statsA.questionsAnswered + statsB.questionsAnswered
        pos == statsA.positiveRatings + statsB.positiveRatings
    IN  /\ activeABTest.results.pValue.kind # "unset" <=> n > 20
        /\ activeABTest.results.pValue.kind # "unset"
              => /\ statsA.questionsAnswered >= 1
                 /\ statsB.questionsAnswered >= 1
                 /\ 0 < pos /\ pos < n
                 /\ activeABTest.results.pValue.kind = "value"


\* the recommendations shown in the current state
Shown == generateRecommendations(sources, now)

\* C22 as stated: every source that was last used more than 30 days ago and
\* was used fewer than 5 times gets a recommendation to remove it, of impact
\* low, whatever its ratings, its interval and its score.
C22_StaleGetsRemove ==
  \A i \in 1..Len(sources) :
     (/\ sources[i].usageStats.lastUsed # 0
      /\ now - sources[i].usageStats.lastUsed > 1
      /\ sources[i].usageStats.timesUsed < 5)
        => \E j \in 1..Len(Shown) :
              /\ Shown[j].sourceId = sources[i].id
              /\ Shown[j].type = "remove"
              /\ Shown[j].impact = "low"

\* C30 as stated: every recommendation to increase the priority suggests a
\* priority of 1..5 above the current one, and every recommendation to
\* decrease it suggests a priority of 1..5 below the current one.
C30_SuggestionMoves ==
  \A j \in 1..Len(Shown) :
     /\ Shown[j].type = "increase_priority"
           => /\ Shown[j].suggestedPriority \in 1..5
              /\ Shown[j].suggestedPriority > Shown[j].currentPriority
     /\ Shown[j].type = "decrease_priority"
           => /\ Shown[j].suggestedPriority \in 1..5
              /\ Shown[j].suggestedPriority < Shown[j].currentPriority


\* C23 as stated: importConfiguration(exportConfiguration()) restores every
\* source and the active experiment, with the priority maps of configA and
\* configB intact.
C23_RoundTrip ==
  [][importConfigurationOf(exportConfiguration(sources, activeABTest))
       => /\ sources' = sources
          /\ (activeABTest = NoTest) = (activeABTest' = NoTest)
          /\ activeABTest # NoTest
                => /\ activeABTest'.configA.sourcePriorities
                         = activeABTest.configA.sourcePriorities
                   /\ activeABTest'.configB.sourcePriorities
                         = activeABTest.configB.sourcePriorities]_vars


\* the events of a history that are positive
PositiveEvents(history) == Cardinality({j \in 1..Len(history) : history[j].isPositive})

History(source) == source.usageStats.feedbackHistory

\* history is the old history with events appended: the old events keep their
\* timestamp, their isPositive and their order
Extends(history, old) ==
  /\ Len(history) >= Len(old)
  /\ \A j \in 1..Len(old) :
        /\ history[j].timestamp = old[j].timestamp
        /\ history[j].isPositive = old[j].isPositive

\* C25: in every state reached by ingestion, recordSourceUsage, processFeedback,
\* priority changes and the experiment's operations, the feedbackHistory of
\* every source has as many events as positiveRatings + negativeRatings and as
\* many positive events as positiveRatings; processFeedback only appends: the
\* events recorded before the call keep their timestamp, isPositive and order.
C25_HistoryMatchesCounters ==
  /\ [](\A i \in 1..Len(sources) :
          /\ Len(History(sources[i])) = Count(sources[i])
          /\ PositiveEvents(History(sources[i])) = sources[i].usageStats.positiveRatings)
  /\ [][(\E ids \in HistoryIdLists, isPositive \in BOOLEAN :
            processFeedback(ids, isPositive))
          => \A id \in Ids(sources) :
                /\ id \in Ids(sources')
                /\ Extends(History(Get(sources', id)), History(Get(sources, id)))]_vars

\* C25 witness: feedback at a later time on a source that had been rated: its
\* history holds an old event and a new one, of both kinds
C25_Witness ==
  \E i \in 1..Len(sources) :
     /\ fbCalls > 0
     /\ Len(History(sources[i])) >= 2
     /\ History(sources[i])[1].timestamp < History(sources[i])[Len(History(sources[i]))].timestamp
     /\ PositiveEvents(History(sources[i])) \in 1..(Len(History(sources[i])) - 1)


ChunkIds(list) == {list[i].id : i \in 1..Len(list)}

Ingestions == {p \in inflight : p.op = "ingest"}
SuspendedQueries == {p \in inflight : p.op = "query"}

\* C24: under any interleaving of ingestions, removals and queries, a query's
\* search never sees a partially inserted or partially removed set of chunks:
\* while an ingestion is suspended none of its chunks is in the store, and when
\* it ends all of them are, or none; a removal leaves no chunk under the
\* source's name; the search of a resumed query returns chunks of the store
\* only, none of a suspended ingestion, and leaves the store as it is.
C24_SearchSeesWholeBatches ==
  /\ [](\A p \in Ingestions : ChunkIds(p.batch) \cap ChunkIds(chunks) = {})
  /\ [][/\ \A p \in Ingestions :
             p \notin inflight'
                => \/ ChunkIds(p.batch) \subseteq ChunkIds(chunks')
                   \/ ChunkIds(p.batch) \cap ChunkIds(chunks') = {}
        /\ \A id \in Ids(sources) :
             removeSource(id)
                => \A i \in 1..Len(chunks') : chunks'[i].source # Get(sources, id).name
        /\ \A p \in SuspendedQueries :
             searchQuery(p)
                => /\ chunks' = chunks
                   /\ \A i \in 1..Len(queryReturns(p)) :
                         /\ queryReturns(p)[i].chunk.id \in ChunkIds(chunks)
                         /\ \A g \in Ingestions :
                               queryReturns(p)[i].chunk.id \notin ChunkIds(g.batch)]_vars

\* C24 witness: a query and an ingestion of two chunks are suspended while the
\* store holds searchable chunks of two registered sources
C24_Witness ==
  /\ \E p \in SuspendedQueries : Len(queryReturns(p)) >= 2
  /\ \E g \in Ingestions : Len(g.batch) >= 2
  /\ Len(sources) >= 2


====
